---------------------------- MODULE Spec2Model ----------------------------
(***************************************************************************)
(* A model of kollabi's CollabExplainer (src/src/kollabi/explainer.py):    *)
(* the combination canonicaliser, the term algebra, the memoizing model    *)
(* cache (__get_model), the decomposition engine (compute), the            *)
(* decomposition cache and query layer (get), the pairwise queries         *)
(* (get_all_pairwise, save) and new_split.                                 *)
(*                                                                         *)
(* Feature names are modelled as integers; the integer order stands for    *)
(* Python's string order.  Lists and tuples of names are sequences.        *)
(* Floating point numbers are modelled as exact extended rationals         *)
(* [n, d]: d > 0 is the fraction n/d in lowest terms, d = 0 is +inf        *)
(* (n = 1), -inf (n = -1) or nan (n = 0), which is what numpy's float64    *)
(* division yields instead of raising.                                     *)
(***************************************************************************)
EXTENDS Integers, Sequences, FiniteSets, TLC

(***************************************************************************)
(* Bounds of the model.                                                    *)
(***************************************************************************)
MaxCalls == 2       \* operations issued on one engine instance
MaxFailAt == 2      \* a failing fit is among the first MaxFailAt fits of a call
MaxNames == 4       \* feature names the term algebra is applied to
MaxGroupLen == 2    \* length of a group and of a conditioning set there
MaxOrder == 3       \* maximum interaction order there

(***************************************************************************)
(* The dataset: self.fs is the list of non-target columns.  UnknownNames   *)
(* are names a caller may pass that are no column of the dataset.          *)
(***************************************************************************)
fs == <<1, 2, 3>>
UnknownNames == {4}

Range(s) == {s[i] : i \in 1..Len(s)}

(***************************************************************************)
(* Extended rational arithmetic (float64 without rounding).                *)
(***************************************************************************)
Abs(x) == IF x < 0 THEN -x ELSE x
Sign(x) == IF x < 0 THEN -1 ELSE IF x = 0 THEN 0 ELSE 1

RECURSIVE GCD(_, _)
GCD(a, b) == IF b = 0 THEN a ELSE GCD(b, a % b)

Norm(n, d) ==
    IF d = 0 THEN [n |-> Sign(n), d |-> 0]
    ELSE LET g == GCD(Abs(n), Abs(d))
         IN  [n |-> (Sign(d) * n) \div g, d |-> Abs(d) \div g]

Num(i) == [n |-> i, d |-> 1]
NaN == [n |-> 0, d |-> 0]
IsFinite(a) == a.d # 0

FMul(a, b) == Norm(a.n * b.n, a.d * b.d)
FAdd(a, b) ==
    IF a.d = 0 /\ b.d = 0 THEN (IF a.n = b.n THEN a ELSE NaN)
    ELSE IF a.d = 0 THEN a
    ELSE IF b.d = 0 THEN b
    ELSE Norm(a.n * b.d + b.n * a.d, a.d * b.d)
FNeg(a) == [n |-> -a.n, d |-> a.d]
FSub(a, b) == FAdd(a, FNeg(b))
FDiv(a, b) == FMul(a, Norm(b.d, b.n))

(***************************************************************************)
(* Python's sorted() on a list of names, and tuple comparison.             *)
(***************************************************************************)
RECURSIVE Insert(_, _)
Insert(x, s) ==
    IF s = <<>> THEN <<x>>
    ELSE IF x < Head(s) THEN <<x>> \o s
    ELSE <<Head(s)>> \o Insert(x, Tail(s))

RECURSIVE Sorted(_)
Sorted(s) == IF s = <<>> THEN <<>> ELSE Insert(Head(s), Sorted(Tail(s)))

RECURSIVE TupleLess(_, _)
TupleLess(a, b) ==
    IF b = <<>> THEN FALSE
    ELSE IF a = <<>> THEN TRUE
    ELSE IF Head(a) # Head(b) THEN Head(a) < Head(b)
    ELSE TupleLess(Tail(a), Tail(b))

\* the sort key of __sort_comb: (len(x), x)
KeyLess(a, b) == Len(a) < Len(b) \/ (Len(a) = Len(b) /\ TupleLess(a, b))

RECURSIVE InsertGroup(_, _)
InsertGroup(g, s) ==
    IF s = <<>> THEN <<g>>
    ELSE IF KeyLess(g, Head(s)) THEN <<g>> \o s
    ELSE <<Head(s)>> \o InsertGroup(g, Tail(s))

RECURSIVE SortedGroups(_)
SortedGroups(s) ==
    IF s = <<>> THEN <<>> ELSE InsertGroup(Head(s), SortedGroups(Tail(s)))

(***************************************************************************)
(* Combination Canonicalizer.                                              *)
(***************************************************************************)
\* a canonicaliser that sorts inside the groups only
sort_comb_inner(comb, inner_only) == [i \in 1..Len(comb) |-> Sorted(comb[i])]

sort_comb(comb, inner_only) ==
    LET comb_s == [i \in 1..Len(comb) |-> Sorted(comb[i])]
    IN  IF inner_only THEN comb_s ELSE SortedGroups(comb_s)

\* res.rename({var_g1: var_g2, var_g2: var_g1}).loc[res.index]
SwapG1G2(res) == [res EXCEPT !.var_g1 = res.var_g2, !.var_g2 = res.var_g1]

adjust_order(comb, res) ==
    IF sort_comb(comb, TRUE) = sort_comb(comb, FALSE) THEN res ELSE SwapG1G2(res)

(***************************************************************************)
(* Term Algebra.                                                           *)
(***************************************************************************)
Flatten(comb) ==
    LET RECURSIVE F(_)
        F(i) == IF i > Len(comb) THEN <<>> ELSE comb[i] \o F(i + 1)
    IN  F(1)

\* itertools.combinations(s, d), in itertools' order
RECURSIVE Combinations(_, _)
Combinations(s, d) ==
    IF d = 0 THEN << <<>> >>
    ELSE IF Len(s) < d THEN <<>>
    ELSE LET with == Combinations(Tail(s), d - 1)
         IN  [i \in 1..Len(with) |-> <<Head(s)>> \o with[i]]
             \o Combinations(Tail(s), d)

\* [term for term in terms if term not in exclude]
RECURSIVE Without(_, _)
Without(terms, exclude) ==
    IF terms = <<>> THEN <<>>
    ELSE IF Head(terms) \in Range(exclude) THEN Without(Tail(terms), exclude)
    ELSE <<Head(terms)>> \o Without(Tail(terms), exclude)

get_terms(f, order, exclude) ==
    LET RECURSIVE Up(_)
        Up(d) == IF d > order THEN <<>> ELSE Combinations(f, d) \o Up(d + 1)
    IN  Without(Up(2), exclude)

\* an exclusion that allows the terms of the first group only
get_excluded_terms_FirstGroup(comb, order, C) ==
    LET allowed_terms == get_terms(comb[1] \o C, order, <<>>)
        all_terms == get_terms(Flatten(comb) \o C, order, <<>>)
    IN  Without(all_terms, allowed_terms)

get_excluded_terms(comb, order, C) ==
    LET termss == [i \in 1..Len(comb) |-> get_terms(comb[i] \o C, order, <<>>)]
        allowed_terms == Flatten(termss)
        all_terms == get_terms(Flatten(comb) \o C, order, <<>>)
    IN  Without(all_terms, allowed_terms)

(***************************************************************************)
(* The external collaborators: the learner and the data.  A fitted         *)
(* predictor is the record of what __get_model handed to the learner: the  *)
(* training partition it was fitted on, the columns, the excluded terms,   *)
(* and the partition of the conditioning model whose residual was the      *)
(* target (-1: the target itself).  What the code reads off a predictor    *)
(* and the evaluation partition (r2_score, np.var, np.cov) is a fixed      *)
(* function of the predictor and the partition.                            *)
(***************************************************************************)
SumSeq(s) ==
    LET RECURSIVE S(_)
        S(i) == IF i > Len(s) THEN 0 ELSE s[i] + S(i + 1)
    IN  S(1)

NoModel == [split |-> -1, cols |-> <<>>, hasExcl |-> FALSE, excl |-> <<>>, base |-> -1]

Learner(split, cols, hasExcl, excl, base) ==
    [split |-> split.id, cols |-> cols, hasExcl |-> hasExcl, excl |-> excl,
     base |-> base]

Hash(m, split) ==
    SumSeq(m.cols) + 2 * Len(m.excl) + 3 * (m.split + 1) + 5 * split.id + (m.base + 1)

\* r2_score(y_test_res, model.predict(X_test[...]))
R2Score(m, b, split) == Norm((Hash(m, split) + b.split + 1) % 5, 4)
\* np.var(b.predict(X_test[C]))
VarPred(b, split) == Num((Hash(b, split) + 2) % 3)
\* np.var(y_test - b.predict(X_test[C])); the variance of the prediction
\* when y_test is constant
VarResidual(b, split) ==
    IF split.varY = 0 THEN VarPred(b, split) ELSE Num((Hash(b, split) + 1) % 3)
\* np.cov(g1_res, g2_res)[0, 1]
CovComponents(m, split) == Num((Hash(m, split) % 3) - 1)

(***************************************************************************)
(* Combination validation.  An element of a combination is a str, a list   *)
(* or a tuple; v holds the name (for a str) or the names.                  *)
(***************************************************************************)
Str(f) == [t |-> "str", v |-> <<f>>]
List(s) == [t |-> "list", v |-> s]
Tuple(s) == [t |-> "tuple", v |-> s]

\* a validation that does not wrap a str: iterating over the str yields its
\* characters (0 stands for a character, which is no column name)
AsList_NoWrap(e) == IF e.t = "str" THEN <<0>> ELSE e.v

\* comb_[i] = [comb_[i]] for a str, list(comb_[i]) for a tuple
AsList(e) == e.v

\* a validation without the assertion that the two groups are disjoint
assert_comb_valid_NoDisjoint(comb, C) ==
    IF Len(comb) # 2
    THEN [err |-> "InvalidCombinationError", comb |-> <<>>]
    ELSE LET comb_ == [i \in 1..2 |-> AsList(comb[i])]
         IN  IF \E i \in 1..2 : ~(Range(comb_[i]) \subseteq Range(fs))
             THEN [err |-> "UnknownFeatureError", comb |-> <<>>]
             ELSE IF (Range(comb_[1]) \cup Range(comb_[2])) \cap Range(C) # {}
             THEN [err |-> "OverlapError", comb |-> <<>>]
             ELSE [err |-> "none", comb |-> comb_]

assert_comb_valid(comb, C) ==
    IF Len(comb) # 2
    THEN [err |-> "InvalidCombinationError", comb |-> <<>>]
    ELSE LET comb_ == [i \in 1..2 |-> AsList(comb[i])]
         IN  IF \E i \in 1..2 : ~(Range(comb_[i]) \subseteq Range(fs))
             THEN [err |-> "UnknownFeatureError", comb |-> <<>>]
             ELSE IF Range(comb_[1]) \cap Range(comb_[2]) # {}
             THEN [err |-> "OverlapError", comb |-> <<>>]
             ELSE IF (Range(comb_[1]) \cup Range(comb_[2])) \cap Range(C) # {}
             THEN [err |-> "OverlapError", comb |-> <<>>]
             ELSE [err |-> "none", comb |-> comb_]

(***************************************************************************)
(* Model Cache / Fitter.  A call threads st = [models, log, err, model,    *)
(* ret]: models is self.models, log lists the learner's fit invocations of *)
(* the current top-level call (key, kind, whether it returned), err is the *)
(* exception in flight ("none": none; a step reached with an exception in  *)
(* flight does nothing, which is how the exception propagates), model is   *)
(* the value the last step returned and ret lists the values compute has   *)
(* bound to its locals so far.  The failAt-th fit invocation of the call   *)
(* raises (0: none does).                                                  *)
(***************************************************************************)
ModelKey(comb, order, C) == <<order, sort_comb(comb, FALSE), Sorted(C)>>

\* the value of a one-element set: S = {e} evaluates e once
The(S) == CHOOSE x \in S : TRUE

Start(models) ==
    [models |-> models, log |-> <<>>, err |-> "none", model |-> NoModel,
     ret |-> <<>>]

\* a fitter that stores the predictor before fitting it
Fit_StoreFirst(st0, key, kind, model, failAt) ==
    The({ IF st.err # "none"
          THEN [st EXCEPT !.model = NoModel]
          ELSE IF Len(st.log) + 1 = failAt
          THEN [st EXCEPT !.models = IF kind = "model"
                                     THEN (key :> model) @@ st.models
                                     ELSE st.models,
                          !.log = Append(st.log, [key |-> key, kind |-> kind,
                                                  ok |-> FALSE]),
                          !.err = "FitError", !.model = NoModel]
          ELSE [st EXCEPT !.models = IF kind = "model"
                                     THEN (key :> model) @@ st.models
                                     ELSE st.models,
                          !.log = Append(st.log, [key |-> key, kind |-> kind,
                                                  ok |-> TRUE]),
                          !.model = model]
          : st \in {st0} })

\* model.fit(...) and, when it returns, self.models[key] = model
Fit(st0, key, kind, model, failAt) ==
    The({ IF st.err # "none"
          THEN [st EXCEPT !.model = NoModel]
          ELSE IF Len(st.log) + 1 = failAt
          THEN [st EXCEPT !.log = Append(st.log, [key |-> key, kind |-> kind,
                                                  ok |-> FALSE]),
                          !.err = "FitError", !.model = NoModel]
          ELSE [st EXCEPT !.models = IF kind = "model"
                                     THEN (key :> model) @@ st.models
                                     ELSE st.models,
                          !.log = Append(st.log, [key |-> key, kind |-> kind,
                                                  ok |-> TRUE]),
                          !.model = model]
          : st \in {st0} })

\* a model cache that is never looked up: every request fits
RECURSIVE get_model_NoLookup(_, _, _, _, _, _)
get_model_NoLookup(st0, split, comb, order, C, failAt) ==
    LET comb_s == sort_comb(comb, FALSE)
        C_s == Sorted(C)
        key == <<order, comb_s, C_s>>
        hasExcl == Len(comb_s) > 1
    IN  The({ IF st.err # "none" THEN [st EXCEPT !.model = NoModel]
              ELSE The({ Fit(cond, key, "model",
                             Learner(split, Flatten(comb) \o C, hasExcl,
                                     IF hasExcl
                                     THEN get_excluded_terms(comb, order, C)
                                     ELSE <<>>,
                                     cond.model.split),
                             failAt)
                         : cond \in { IF Len(C_s) > 0
                                      THEN get_model_NoLookup(st, split, <<C_s>>,
                                                              order, <<>>, failAt)
                                      ELSE [st EXCEPT !.model = NoModel] } })
              : st \in {st0} })

\* a model cache that fits every model on the target itself
get_model_NoCond(st0, split, comb, order, C, failAt) ==
    LET comb_s == sort_comb(comb, FALSE)
        key == <<order, comb_s, Sorted(C)>>
        hasExcl == Len(comb_s) > 1
    IN  The({ IF st.err # "none" THEN [st EXCEPT !.model = NoModel]
              ELSE IF key \in DOMAIN st.models
              THEN [st EXCEPT !.model = st.models[key]]
              ELSE Fit(st, key, "model",
                       Learner(split, Flatten(comb) \o C, hasExcl,
                               IF hasExcl THEN get_excluded_terms(comb, order, C)
                               ELSE <<>>,
                               -1),
                       failAt)
              : st \in {st0} })

RECURSIVE get_model(_, _, _, _, _, _)
get_model(st0, split, comb, order, C, failAt) ==
    LET comb_s == sort_comb(comb, FALSE)
        C_s == Sorted(C)
        fs_full == Flatten(comb) \o C
        key == <<order, comb_s, C_s>>
        hasExcl == Len(comb_s) > 1
        excluded_terms == IF hasExcl THEN get_excluded_terms(comb, order, C)
                          ELSE <<>>
        \* the model for C is fetched first; the new model is fitted on its
        \* residuals
        fit(st) ==
            The({ Fit(cond, key, "model",
                      Learner(split, fs_full, hasExcl, excluded_terms,
                              cond.model.split),
                      failAt)
                  : cond \in { IF Len(C_s) > 0
                               THEN get_model(st, split, <<C_s>>, order, <<>>,
                                              failAt)
                               ELSE [st EXCEPT !.model = NoModel] } })
    IN  The({ IF st.err # "none" THEN [st EXCEPT !.model = NoModel]
              ELSE IF key \in DOMAIN st.models
              THEN [st EXCEPT !.model = st.models[key]]
              ELSE fit(st)
              : st \in {st0} })

(***************************************************************************)
(* Decomposition Engine.                                                   *)
(***************************************************************************)
RETURN_NAMES ==
    <<"var_g1", "var_g2", "var_gC", "additive_collab_explv",
      "additive_collab_cov", "interactive_collab">>

Series(a, b, c, d, e, f) ==
    [var_g1 |-> a, var_g2 |-> b, var_gC |-> c, additive_collab_explv |-> d,
     additive_collab_cov |-> e, interactive_collab |-> f]

NoRes == Series(NaN, NaN, NaN, NaN, NaN, NaN)
NoRaw == [unscaled |-> NoRes, factor |-> NaN, var_y |-> NaN, var_total |-> NaN]

\* a main effect is a plain name in the source's term lists; here <<f>>
MainEffects(f) == [i \in 1..Len(f) |-> <<f[i]>>]

terms_C(order, C) == get_terms(C, order, <<>>) \o MainEffects(C)
\* component terms that keep the pure-C interactions
terms_g_NoExclude(g, order, C) ==
    get_terms(g \o C, order, <<>>) \o MainEffects(g)

terms_g(g, order, C) ==
    get_terms(g \o C, order, terms_C(order, C)) \o MainEffects(g)

\* binds the value a step returned to the next local of compute
Bind(st0) == The({ [st EXCEPT !.ret = Append(st.ret, st.model)] : st \in {st0} })

\* compute returns the Series res; raw records the quantities before the
\* rescaling block, the factor, np.var(self.y_test) and var_total; ret lists
\* the predictors __get_model returned (b, model_full, model_order1, f1, f2)
compute(st, split, comb, order, C, failAt) ==
    LET v == assert_comb_valid(comb, <<>>)
        cmb == v.comb
        f == Flatten(cmb)
        hasC == Len(C) > 0
        \* get baseline; then the full model, the GAM and the two groups
        s1 == Bind(IF hasC THEN get_model(st, split, <<C>>, order, <<>>, failAt)
                   ELSE [st EXCEPT !.model = NoModel])
        s2 == Bind(get_model(s1, split, <<f>>, order, C, failAt))
        s3 == Bind(get_model(s2, split, cmb, order, C, failAt))
        s4 == Bind(get_model(s3, split, <<cmb[1]>>, order, C, failAt))
        s5 == Bind(get_model(s4, split, <<cmb[2]>>, order, C, failAt))
        \* orthogonalisation of the GAM components against C
        aux == [split |-> split.id, cols |-> C, hasExcl |-> FALSE, excl |-> <<>>,
                base |-> -1]
        key1 == ModelKey(cmb, order, C)
        s6 == IF hasC THEN Fit(s5, key1, "model_g1", aux, failAt) ELSE s5
        s7 == IF hasC THEN Fit(s6, key1, "model_g2", aux, failAt) ELSE s6
        scores(s) ==
            LET b == s.ret[1]
                model_full == s.ret[2]
                model_order1 == s.ret[3]
                f1 == s.ret[4]
                f2 == s.ret[5]
                var_y_res == IF hasC THEN VarResidual(b, split)
                             ELSE Num(split.varY)
                var_fC == FDiv(IF hasC THEN VarPred(b, split) ELSE Num(0),
                               var_y_res)
                var_total == R2Score(model_full, b, split)
                var_GAM == R2Score(model_order1, b, split)
                var_f1 == R2Score(f1, b, split)
                var_f2 == R2Score(f2, b, split)
                cov_g1_g2 == FDiv(CovComponents(model_order1, split), var_y_res)
                additive_collab ==
                    FMul(FSub(FAdd(var_f1, var_f2), var_GAM), Num(-1))
                additive_collab_wo_cov ==
                    FAdd(additive_collab, FMul(Num(2), cov_g1_g2))
                interactive_collab == FSub(var_total, var_GAM)
                \* rescale to proportion of variance of Y
                var_y == Num(split.varY)
                factor == FDiv(var_y_res, var_y)
            IN  [models |-> s.models, log |-> s.log, err |-> "none",
                 ret |-> s.ret,
                 res |-> Series(FMul(var_f1, factor), FMul(var_f2, factor),
                                FMul(var_fC, factor), additive_collab_wo_cov,
                                FMul(Num(-2), FMul(cov_g1_g2, factor)),
                                FMul(interactive_collab, factor)),
                 raw |-> [unscaled |-> Series(var_f1, var_f2, var_fC,
                                              additive_collab_wo_cov,
                                              FMul(Num(-2), cov_g1_g2),
                                              interactive_collab),
                          factor |-> factor, var_y |-> var_y,
                          var_total |-> var_total]]
    IN  The({ IF s.err # "none"
              THEN [models |-> s.models, log |-> s.log, err |-> s.err,
                    ret |-> <<>>, res |-> NoRes, raw |-> NoRaw]
              ELSE scores(s)
              : s \in { IF st.err # "none" THEN st
                        ELSE IF v.err # "none" THEN [st EXCEPT !.err = v.err]
                        ELSE s7 } })

(***************************************************************************)
(* Decomposition Cache & Query Layer.                                      *)
(***************************************************************************)
DecompKey(comb_s, C) == <<comb_s, Sorted(C)>>

\* a query layer that never looks the key up
get_NoLookup(models, decomps, split, comb, C, failAt) ==
    LET v == assert_comb_valid(comb, <<>>)
        comb_s == sort_comb(v.comb, FALSE)
        key == DecompKey(comb_s, C)
    IN  IF v.err # "none"
        THEN [models |-> models, decomps |-> decomps, log |-> <<>>,
              err |-> v.err, ret |-> <<>>, res |-> NoRes, raw |-> NoRaw,
              hit |-> FALSE]
        ELSE The({ IF c.err # "none"
                   THEN [models |-> c.models, decomps |-> decomps,
                         log |-> c.log, err |-> c.err, ret |-> <<>>,
                         res |-> NoRes, raw |-> NoRaw, hit |-> FALSE]
                   ELSE [models |-> c.models,
                         decomps |-> (key :> c.res) @@ decomps,
                         log |-> c.log, err |-> "none", ret |-> c.ret,
                         res |-> c.res, raw |-> c.raw, hit |-> FALSE]
                   : c \in { compute(Start(models), split,
                                     [i \in 1..Len(comb_s) |-> Tuple(comb_s[i])],
                                     2, C, failAt) } })

\* get(comb, C) on the caches (models, decomps)
get(models, decomps, split, comb, C, failAt) ==
    LET v == assert_comb_valid(comb, <<>>)
        comb_s == sort_comb(v.comb, FALSE)
        key == DecompKey(comb_s, C)
    IN  IF v.err # "none"
        THEN [models |-> models, decomps |-> decomps, log |-> <<>>,
              err |-> v.err, ret |-> <<>>, res |-> NoRes, raw |-> NoRaw,
              hit |-> FALSE]
        ELSE IF key \in DOMAIN decomps
        THEN [models |-> models, decomps |-> decomps, log |-> <<>>,
              err |-> "none", ret |-> <<>>,
              res |-> adjust_order(v.comb, decomps[key]),
              raw |-> NoRaw, hit |-> TRUE]
        ELSE The({ IF c.err # "none"
                   THEN [models |-> c.models, decomps |-> decomps,
                         log |-> c.log, err |-> c.err, ret |-> <<>>,
                         res |-> NoRes, raw |-> NoRaw, hit |-> FALSE]
                   ELSE [models |-> c.models,
                         decomps |-> (key :> c.res) @@ decomps,
                         log |-> c.log, err |-> "none", ret |-> c.ret,
                         res |-> c.res, raw |-> c.raw, hit |-> FALSE]
                   : c \in { compute(Start(models), split,
                                     [i \in 1..Len(comb_s) |-> Tuple(comb_s[i])],
                                     2, C, failAt) } })

(***************************************************************************)
(* Pairwise queries and persistence (get_all_pairwise, save).              *)
(***************************************************************************)
\* an empty dict, an empty frame
Empty == [x \in {} |-> x]

\* res.sum(axis=0)
Sum6(res) ==
    FAdd(FAdd(FAdd(res.var_g1, res.var_g2), FAdd(res.var_gC, res.additive_collab_explv)),
         FAdd(res.additive_collab_cov, res.interactive_collab))

\* list(self.decomps.keys()); the model's decomps does not record the
\* insertion order, the keys are listed in some order
RECURSIVE KeyList(_)
KeyList(keys) ==
    IF keys = {} THEN <<>>
    ELSE LET k == CHOOSE x \in keys : TRUE
         IN  <<k>> \o KeyList(keys \ {k})

\* A key of self.decomps read as a combination: its first element, the tuple
\* of group tuples, is taken for the first group, whose members are then
\* tuples and no column names (0 stands for such a member); its second
\* element, tuple(sorted(C)), is taken for the second group.
KeyAsComb(key) == <<Tuple([i \in 1..Len(key[1]) |-> 0]), Tuple(key[2])>>

\* the list combinations: each entry with the row tuple(comb) it indexes
combinations(decomps, columns, only_precomputed) ==
    IF only_precomputed
    THEN LET keys == KeyList(DOMAIN decomps)
         IN  [i \in 1..Len(keys) |-> [row |-> keys[i], comb |-> KeyAsComb(keys[i])]]
    ELSE LET pairs == Combinations(columns, 2)
         IN  [i \in 1..Len(pairs) |->
                [row |-> pairs[i],
                 comb |-> <<Str(pairs[i][1]), Str(pairs[i][2])>>]]

\* comb[::-1], with the row it indexes
Reverse(c) == [row |-> <<c.row[2], c.row[1]>>, comb |-> <<c.comb[2], c.comb[1]>>]

\* the calls of get the loop makes, in order: get(comb) for each entry, in
\* the table form followed by get(comb[::-1])
RECURSIVE Requests(_, _)
Requests(combs, return_matrixs) ==
    IF combs = <<>> THEN <<>>
    ELSE (IF return_matrixs THEN <<Head(combs)>>
          ELSE <<Head(combs), Reverse(Head(combs))>>)
             \o Requests(Tail(combs), return_matrixs)

\* the five frames of the matrix form, indexed by self.fs on both axes
MatNames ==
    <<"vars_bivarivate", "additive_collab", "synergetic_collab", "neg2_cov_g1_g2",
      "additive_collab_wo_cov">>
NoMats(columns) ==
    [m \in Range(MatNames) |-> [ij \in Range(columns) \X Range(columns) |-> NaN]]

\* the assignments of one iteration of the matrix form
FillMats(m, a, b, res) ==
    [m EXCEPT
        !.vars_bivarivate =
            (<<b, a>> :> Sum6(res)) @@ (<<a, b>> :> Sum6(res))
                @@ (<<b, b>> :> res.var_g2) @@ (<<a, a>> :> res.var_g1) @@ @,
        !.additive_collab =
            [ij \in {<<a, b>>, <<b, a>>} |->
                FAdd(res.additive_collab_explv, res.additive_collab_cov)] @@ @,
        !.neg2_cov_g1_g2 =
            [ij \in {<<a, b>>, <<b, a>>} |-> res.additive_collab_cov] @@ @,
        !.additive_collab_wo_cov =
            [ij \in {<<a, b>>, <<b, a>>} |-> res.additive_collab_explv] @@ @,
        !.synergetic_collab =
            [ij \in {<<a, b>>, <<b, a>>} |-> res.interactive_collab] @@ @]

\* the fit of the whole call that raises, counted within the next get
FailIn(log, failAt) == IF failAt > Len(log) THEN failAt - Len(log) ELSE 0

\* res = self.get(comb) and the assignments that follow it; the loop stops
\* at the first get that raises
RECURSIVE pairwise_loop(_, _, _, _, _)
pairwise_loop(acc0, split, reqs, return_matrixs, failAt) ==
    The({ IF reqs = <<>> \/ acc.err # "none" THEN acc
          ELSE pairwise_loop(
                 The({ [models |-> r.models, decomps |-> r.decomps,
                        log |-> acc.log \o r.log, err |-> r.err,
                        table |-> IF r.err # "none" \/ return_matrixs
                                  THEN acc.table
                                  ELSE (Head(reqs).row :> r.res) @@ acc.table,
                        mats |-> IF r.err # "none" \/ ~return_matrixs
                                 THEN acc.mats
                                 ELSE FillMats(acc.mats, Head(reqs).row[1],
                                               Head(reqs).row[2], r.res)]
                       : r \in { get(acc.models, acc.decomps, split,
                                     Head(reqs).comb, <<>>,
                                     FailIn(acc.log, failAt)) } }),
                 split, Tail(reqs), return_matrixs, failAt)
          : acc \in {acc0} })

\* get_all_pairwise(only_precomputed, return_matrixs); an exception of get
\* propagates and nothing is returned
get_all_pairwise(models, decomps, split, columns, only_precomputed, return_matrixs, failAt) ==
    The({ The({ IF r.err # "none" THEN [r EXCEPT !.table = Empty, !.mats = Empty]
                ELSE r
                : r \in { pairwise_loop(
                            [models |-> models, decomps |-> decomps,
                             log |-> <<>>, err |-> "none",
                             table |-> IF return_matrixs THEN Empty
                                       ELSE [x \in {combs[i].row : i \in 1..Len(combs)}
                                               |-> NoRes],
                             mats |-> IF return_matrixs THEN NoMats(columns)
                                      ELSE Empty],
                            split, Requests(combs, return_matrixs),
                            return_matrixs, failAt) } })
          : combs \in {combinations(decomps, columns, only_precomputed)} })

(***************************************************************************)
(* The engine instance.                                                    *)
(***************************************************************************)
VARIABLES
    models,     \* self.models: model key -> fitted predictor
    decomps,    \* self.decomps: decomposition key -> Series
    split,      \* the current train/test partition: its number and np.var(y_test)
    test_size,  \* self.test_size, in percent
    nfit,       \* model key -> number of fits of a cached model that returned
    last,       \* the last call: its arguments and what the caller observed
    calls,      \* number of calls issued so far
    columns     \* self.fs as a list: the non-target columns in the frame's order

vars == <<models, decomps, split, test_size, nfit, last, calls, columns>>

\* What callers pass.  A group is written as a list of names, or as a bare
\* name (shorthand for a one-element group).  The combinations cover both
\* group orders, the shorthand, groups of different sizes (canonical order
\* sorts by size first), an unsorted group, and each defect of section 4.6.
Names == Range(fs) \cup UnknownNames
Combs ==
    { <<Str(fs[1]), Str(fs[2])>>,
      <<List(<<fs[1]>>), List(<<fs[2]>>)>>,
      <<List(<<fs[2]>>), List(<<fs[1]>>)>>,
      <<List(<<fs[2], fs[1]>>), List(<<fs[3]>>)>>,
      <<List(<<fs[3]>>), List(<<fs[1], fs[2]>>)>>,
      <<Str(fs[1])>>,
      <<List(<<fs[2], fs[1]>>), Str(fs[2])>> }
        \cup {<<Str(fs[1]), List(<<f>>)>> : f \in UnknownNames}
Conds == {<<>>, <<fs[3]>>}
VarYs == {0, 1, 2}
Orders == {2, 3}
\* the columns in sorted order, and in an order that is not sorted
ColumnOrders == {fs, <<fs[2], fs[1], fs[3]>>}

\* What is wrong with an input, stated on the input itself (section 4.6 of
\* the specification): wrong arity, a name that is no column, overlapping
\* groups, a conditioning set that overlaps the groups.
NamesOf(comb) == UNION {Range(comb[i].v) : i \in 1..Len(comb)}
Defects(comb, C) ==
    (IF Len(comb) # 2 THEN {"arity"} ELSE {})
        \cup (IF ~(NamesOf(comb) \subseteq Range(fs)) THEN {"unknown"} ELSE {})
        \cup (IF \E i, j \in 1..Len(comb) :
                    i < j /\ Range(comb[i].v) \cap Range(comb[j].v) # {}
              THEN {"overlap"} ELSE {})
        \cup (IF NamesOf(comb) \cap Range(C) # {} THEN {"overlapC"} ELSE {})

NoCall == [op |-> "init", bad |-> {}, comb |-> <<>>, C |-> <<>>, err |-> "none",
           res |-> NoRes, raw |-> NoRaw, hit |-> FALSE, log |-> <<>>,
           order |-> 0, ret |-> <<>>, only_precomputed |-> FALSE,
           return_matrixs |-> FALSE, table |-> Empty, mats |-> Empty]

RECURSIVE CountFits(_, _)
CountFits(n, log) ==
    IF log = <<>> THEN n
    ELSE LET e == Head(log)
             m == IF e.kind = "model" /\ e.ok
                  THEN (e.key :> (IF e.key \in DOMAIN n THEN n[e.key] + 1 ELSE 1)) @@ n
                  ELSE n
         IN  CountFits(m, Tail(log))

Init ==
    /\ models = Empty
    /\ decomps = Empty
    /\ \E v \in VarYs : split = [id |-> 0, varY |-> v]
    /\ test_size = 20
    /\ nfit = Empty
    /\ last = NoCall
    /\ calls = 0
    /\ columns \in ColumnOrders

\* last keeps the groups and C of a call as the caller wrote them when the
\* groups themselves are well-formed, and only the defects otherwise
Call(comb, C, r) ==
    LET bad == Defects(comb, C)
        keep == bad \subseteq {"overlapC"}
    IN  [NoCall EXCEPT
            !.op = "get", !.bad = bad,
            !.comb = IF keep THEN [i \in 1..2 |-> comb[i].v] ELSE <<>>,
            !.C = IF keep THEN C ELSE <<>>,
            !.err = r.err, !.res = r.res, !.raw = r.raw, !.hit = r.hit,
            !.log = r.log, !.order = 2, !.ret = r.ret]

\* get(comb, C=C) while the failAt-th fit the call invokes raises (0: none
\* does; a call that invokes fewer fits is not one in which that fit raises)
Get(comb, C, failAt) ==
    /\ calls < MaxCalls
    /\ \E r \in {get(models, decomps, split, comb, C, failAt)} :
           /\ failAt <= Len(r.log)
           /\ models' = r.models
           /\ decomps' = r.decomps
           /\ nfit' = CountFits(nfit, r.log)
           /\ last' = Call(comb, C, r)
    /\ calls' = calls + 1
    /\ UNCHANGED <<split, test_size, columns>>

\* compute(comb, order=order, C=C), called directly
Compute(comb, order, C, failAt) ==
    /\ calls < MaxCalls
    /\ \E r \in {compute(Start(models), split, comb, order, C, failAt)} :
           /\ failAt <= Len(r.log)
           /\ models' = r.models
           /\ nfit' = CountFits(nfit, r.log)
           /\ last' = [Call(comb, C, [err |-> r.err, res |-> r.res, raw |-> r.raw,
                                      hit |-> FALSE, log |-> r.log, ret |-> r.ret])
                         EXCEPT !.op = "compute", !.order = order]
    /\ calls' = calls + 1
    /\ UNCHANGED <<decomps, split, test_size, columns>>

\* get_all_pairwise(only_precomputed=.., return_matrixs=..)
GetAllPairwise(only_precomputed, return_matrixs, failAt) ==
    /\ calls < MaxCalls
    /\ \E r \in {get_all_pairwise(models, decomps, split, columns,
                                  only_precomputed, return_matrixs, failAt)} :
           /\ failAt <= Len(r.log)
           /\ models' = r.models
           /\ decomps' = r.decomps
           /\ nfit' = CountFits(nfit, r.log)
           /\ last' = [NoCall EXCEPT
                          !.op = "get_all_pairwise", !.err = r.err, !.log = r.log,
                          !.only_precomputed = only_precomputed,
                          !.return_matrixs = return_matrixs,
                          !.table = r.table, !.mats = r.mats]
    /\ calls' = calls + 1
    /\ UNCHANGED <<split, test_size, columns>>

\* save(filepath): the table of get_all_pairwise(only_precomputed=True) is
\* handed to to_csv
Save ==
    /\ calls < MaxCalls
    /\ \E r \in {get_all_pairwise(models, decomps, split, columns, TRUE, FALSE, 0)} :
           /\ models' = r.models
           /\ decomps' = r.decomps
           /\ nfit' = CountFits(nfit, r.log)
           /\ last' = [NoCall EXCEPT
                          !.op = "save", !.err = r.err, !.log = r.log,
                          !.only_precomputed = TRUE, !.table = r.table]
    /\ calls' = calls + 1
    /\ UNCHANGED <<split, test_size, columns>>

\* new_split(test_size); ts = -1 stands for test_size=None
NewSplit(ts) ==
    /\ calls < MaxCalls
    /\ test_size' = IF ts = -1 THEN test_size ELSE ts
    /\ \E v \in VarYs : split' = [id |-> split.id + 1, varY |-> v]
    /\ decomps' = Empty
    /\ last' = [NoCall EXCEPT !.op = "new_split"]
    /\ calls' = calls + 1
    /\ UNCHANGED <<models, nfit, columns>>

Next ==
    \/ /\ calls < MaxCalls
       /\ \E comb \in Combs, C \in Conds, failAt \in 0..MaxFailAt :
            Get(comb, C, failAt)
    \/ /\ calls < MaxCalls
       /\ \E comb \in Combs, order \in Orders, C \in Conds, failAt \in 0..MaxFailAt :
            Compute(comb, order, C, failAt)
    \/ \E only_precomputed, return_matrixs \in BOOLEAN, failAt \in 0..MaxFailAt :
            GetAllPairwise(only_precomputed, return_matrixs, failAt)
    \/ Save
    \/ \E ts \in {-1, 30} : NewSplit(ts)

Spec == Init /\ [][Next]_vars

(***************************************************************************)
(* The term algebra on its own: __get_model and the term lists of compute  *)
(* applied, on an engine with empty caches, to groups and conditioning     *)
(* sets drawn from TermNames, which are written as lists in any order.     *)
(***************************************************************************)
TermNames == 1..MaxNames

\* the lists of distinct names of length at most n
ListsOf(S, n) ==
    UNION {{l \in [1..k -> S] : \A i, j \in 1..k : i # j => l[i] # l[j]} : k \in 0..n}

\* two groups and a conditioning set, pairwise disjoint
TermInputs ==
    {x \in ListsOf(TermNames, MaxGroupLen) \X ListsOf(TermNames, MaxGroupLen)
              \X ListsOf(TermNames, MaxGroupLen) :
        /\ Range(x[1]) \cap Range(x[2]) = {}
        /\ (Range(x[1]) \cup Range(x[2])) \cap Range(x[3]) = {}}

TermsInit ==
    /\ models = Empty
    /\ decomps = Empty
    /\ split = [id |-> 0, varY |-> 1]
    /\ test_size = 20
    /\ nfit = Empty
    /\ last = NoCall
    /\ calls = 0
    /\ columns = fs

\* __get_model(comb, order, C) for the two groups and __get_model([g1],
\* order, C) for one group: what is handed to the learner
GetModelTerms(g1, g2, C, order) ==
    /\ last' = [op |-> "get_model", comb |-> <<g1, g2>>, C |-> C, order |-> order,
                grouped |-> get_model(Start(Empty), split, <<g1, g2>>, order, C, 0).model,
                single |-> get_model(Start(Empty), split, <<g1>>, order, C, 0).model]
    /\ UNCHANGED <<models, decomps, split, test_size, nfit, calls, columns>>

\* terms_C, terms_g1 and terms_g2 of compute
ComponentTerms(g1, g2, C, order) ==
    /\ last' = [op |-> "component_terms", comb |-> <<g1, g2>>, C |-> C, order |-> order,
                terms_C |-> terms_C(order, C),
                terms_g1 |-> terms_g(g1, order, C),
                terms_g2 |-> terms_g(g2, order, C)]
    /\ UNCHANGED <<models, decomps, split, test_size, nfit, calls, columns>>

\* one application, on the engine as constructed
TermsNext ==
    /\ last.op = "init"
    /\ \E x \in TermInputs, order \in 1..MaxOrder :
          \/ GetModelTerms(x[1], x[2], x[3], order)
          \/ ComponentTerms(x[1], x[2], x[3], order)

SpecTerms == TermsInit /\ [][TermsNext]_vars

(***************************************************************************)
(* Vocabulary of the properties.                                           *)
(***************************************************************************)
\* the step is a call of get
GetStep == calls' = calls + 1 /\ last'.op = "get"

\* r2 is r1 with the two per-group variances swapped
Swapped(r1, r2) ==
    /\ r2.var_g1 = r1.var_g2
    /\ r2.var_g2 = r1.var_g1
    /\ r2.var_gC = r1.var_gC
    /\ r2.additive_collab_explv = r1.additive_collab_explv
    /\ r2.additive_collab_cov = r1.additive_collab_cov
    /\ r2.interactive_collab = r1.interactive_collab

\* two calls name the same groups in opposite order, and the same C
Reversed(c1, c2) ==
    /\ Len(c1.comb) = 2 /\ Len(c2.comb) = 2
    /\ Range(c2.comb[1]) = Range(c1.comb[2])
    /\ Range(c2.comb[2]) = Range(c1.comb[1])
    /\ Range(c2.C) = Range(c1.C)

\* two calls name the same groups, in either order, and the same C
SameQuery(c1, c2) ==
    /\ Len(c1.comb) = 2 /\ Len(c2.comb) = 2
    /\ {Range(c1.comb[1]), Range(c1.comb[2])} = {Range(c2.comb[1]), Range(c2.comb[2])}
    /\ Range(c2.C) = Range(c1.C)

\* the models a decomposition of (G1, G2) given C needs (section 4.4)
RequiredKeys(comb, C) ==
    {ModelKey(<<Flatten(comb)>>, 2, C), ModelKey(comb, 2, C),
     ModelKey(<<comb[1]>>, 2, C), ModelKey(<<comb[2]>>, 2, C)}
        \cup (IF C # <<>> THEN {ModelKey(<<C>>, 2, <<>>)} ELSE {})

QueryKey(c) == DecompKey(sort_comb(c.comb, FALSE), c.C)

ValidationErrors == {"InvalidCombinationError", "UnknownFeatureError", "OverlapError"}

(***************************************************************************)
(* C1. Symmetry: a get of (G1, G2) given C and the next get of (G2, G1)    *)
(* given C, both on valid input and both returning, return results whose   *)
(* var_g1 and var_g2 are swapped and whose other four fields are equal.    *)
(***************************************************************************)
C1_Symmetry ==
    [][(/\ GetStep
        /\ last.op = "get" /\ last.bad = {} /\ last.err = "none"
        /\ last'.bad = {} /\ last'.err = "none"
        /\ Reversed(last, last'))
       => Swapped(last.res, last'.res)]_vars

(***************************************************************************)
(* C2. Immediately after new_split the decomposition cache and the model   *)
(* cache are both empty.                                                   *)
(***************************************************************************)
C2_NewSplitClearsBothCaches ==
    last.op = "new_split" => (DOMAIN decomps = {} /\ DOMAIN models = {})

(***************************************************************************)
(* C3. Conditioning disjointness: a get whose combination is well-formed   *)
(* and whose conditioning set shares a feature with the groups fails with  *)
(* the overlap error.                                                      *)
(***************************************************************************)
C3_ConditioningOverlapRejected ==
    (last.op = "get" /\ last.bad = {"overlapC"}) => last.err = "OverlapError"

(***************************************************************************)
(* C4. Memoization: when a get that returned is followed by a get of the   *)
(* same combination and conditioning set, the second is served from the    *)
(* decomposition cache and invokes no fit, and every model the             *)
(* decomposition needs is in the model cache, fitted exactly once.         *)
(***************************************************************************)
C4_Memoization ==
    [][(/\ GetStep
        /\ last.op = "get" /\ last.err = "none"
        /\ SameQuery(last, last'))
       => /\ last'.hit /\ last'.err = "none"
          /\ last'.log = <<>>
          /\ nfit' = nfit /\ models' = models
          /\ \A k \in RequiredKeys(last.comb, last.C) :
                k \in DOMAIN models /\ k \in DOMAIN nfit /\ nfit[k] = 1]_vars

C4_Witness ==
    /\ last.op = "get" /\ last.hit /\ last.err = "none" /\ calls = 2
    /\ last.C # <<>> /\ last.bad = {}
    /\ \A k \in RequiredKeys(last.comb, last.C) : k \in DOMAIN nfit /\ nfit[k] = 1

(***************************************************************************)
(* C5. Cache-key independence from order: from any cache state, the get    *)
(* of (G1, G2) given C and the get of (G2, G1) given C fit the same        *)
(* models, leave the same model-cache keys and the same decomposition-     *)
(* cache keys, and calling the second after the first fits nothing more.   *)
(***************************************************************************)
\* the valid queries of Combs whose groups are written in canonical order
OrderPairs ==
    {q \in Combs \X Conds :
        /\ Defects(q[1], q[2]) = {}
        /\ q[1][1].t = "list"
        /\ sort_comb(<<q[1][1].v, q[1][2].v>>, TRUE)
              = sort_comb(<<q[1][1].v, q[1][2].v>>, FALSE)}

Rev(comb) == <<comb[2], comb[1]>>

C5_KeysIndependentOfOrder ==
    \A q \in OrderPairs :
        LET a == get(models, decomps, split, q[1], q[2], 0)
            b == get(models, decomps, split, Rev(q[1]), q[2], 0)
            ab == get(a.models, a.decomps, split, Rev(q[1]), q[2], 0)
        IN  /\ DOMAIN a.models = DOMAIN b.models
            /\ DOMAIN a.decomps = DOMAIN b.decomps
            /\ a.log = b.log
            /\ ab.log = <<>>
            /\ DOMAIN ab.models = DOMAIN a.models
            /\ DOMAIN ab.decomps = DOMAIN a.decomps

\* a non-canonical order was asked on a cache that held neither order, and
\* the entry it left is the one the canonical order leaves
C5_Witness ==
    /\ last.op = "get" /\ last.err = "none" /\ ~last.hit /\ last.bad = {}
    /\ sort_comb(last.comb, TRUE) # sort_comb(last.comb, FALSE)
    /\ QueryKey(last) \in DOMAIN decomps
    /\ QueryKey([last EXCEPT !.comb = Rev(last.comb)]) = QueryKey(last)

(***************************************************************************)
(* C6. Fail-fast validation: a get on an invalid input (wrong arity, a     *)
(* name that is no column, overlapping groups, or a conditioning set       *)
(* overlapping the groups) raises a validation error before any fit and    *)
(* leaves both caches as they were.                                        *)
(***************************************************************************)
C6_FailFast ==
    [][(GetStep /\ last'.bad # {})
       => /\ last'.err \in ValidationErrors
          /\ last'.log = <<>>
          /\ models' = models /\ decomps' = decomps]_vars

(***************************************************************************)
(* C7. No negative caching: when a fit of a cached model raises, the       *)
(* caller gets the error, the model cache holds no entry for that key and  *)
(* the decomposition cache none for the query; the next get of the same    *)
(* query invokes the fit for that key again.                               *)
(***************************************************************************)
FailedFit(c) == c.log[Len(c.log)]

C7_NoNegativeCaching ==
    [][/\ (GetStep /\ last'.log # <<>> /\ ~FailedFit(last').ok)
          => /\ last'.err = "FitError"
             /\ FailedFit(last').kind = "model"
                   => FailedFit(last').key \notin DOMAIN models'
             /\ QueryKey(last') \notin DOMAIN decomps'
       /\ (/\ GetStep
           /\ last.op = "get" /\ last.err = "FitError"
           /\ FailedFit(last).kind = "model"
           /\ last'.comb = last.comb /\ last'.C = last.C)
          => \E i \in 1..Len(last'.log) :
                /\ last'.log[i].kind = "model"
                /\ last'.log[i].key = FailedFit(last).key]_vars

C7_Witness ==
    /\ last.op = "get" /\ last.err = "FitError"
    /\ Len(last.log) = 2 /\ FailedFit(last).kind = "model"
    /\ last.log[1].key \in DOMAIN models
    /\ FailedFit(last).key \notin DOMAIN models

(***************************************************************************)
(* C8. Rescaling consistency: each of the six quantities compute returns   *)
(* is the quantity before rescaling times var_y_res / np.var(y_test)       *)
(* (stated where that factor is finite and not zero).                      *)
(***************************************************************************)
Rescaled(u, factor) ==
    Series(FMul(u.var_g1, factor), FMul(u.var_g2, factor), FMul(u.var_gC, factor),
           FMul(u.additive_collab_explv, factor),
           FMul(u.additive_collab_cov, factor),
           FMul(u.interactive_collab, factor))

C8_RescalingConsistency ==
    (/\ last.op = "get" /\ last.err = "none" /\ ~last.hit /\ last.bad = {}
     /\ IsFinite(last.raw.factor) /\ last.raw.factor.n # 0)
    => last.res = Rescaled(last.raw.unscaled, last.raw.factor)

(***************************************************************************)
(* C9. Degenerate target: a get that misses the decomposition cache while  *)
(* the evaluation target has zero variance returns no result and stores    *)
(* nothing in the decomposition cache.                                     *)
(***************************************************************************)
C9_DegenerateTarget ==
    (last.op = "get" /\ last.bad = {} /\ ~last.hit /\ split.varY = 0)
    => /\ last.err \in {"DegenerateTargetError", "FitError"}
       /\ QueryKey(last) \notin DOMAIN decomps

(***************************************************************************)
(* C10. Single-feature shorthand: from any cache state and for any two     *)
(* distinct columns a and b, get(['a', 'b']) and get([['a'], ['b']])       *)
(* leave the same caches, fit the same models and return the same result.  *)
(***************************************************************************)
C10_Shorthand ==
    \A a, b \in Range(fs) :
        a # b =>
            get(models, decomps, split, <<Str(a), Str(b)>>, <<>>, 0)
                = get(models, decomps, split, <<List(<<a>>), List(<<b>>)>>, <<>>, 0)

\* the shorthand was used, on a cache that did not hold the pair, and got a
\* result
C10_Witness ==
    /\ last.op = "get" /\ last.err = "none" /\ ~last.hit /\ last.bad = {}
    /\ last.C = <<>> /\ Len(last.comb[1]) = 1 /\ Len(last.comb[2]) = 1
    /\ DOMAIN models # {}
    /\ get(Empty, Empty, split,
           <<Str(last.comb[1][1]), Str(last.comb[2][1])>>, <<>>, 0).res = last.res

(***************************************************************************)
(* C11. Combination validation: get and compute return a result only if    *)
(* the combination has exactly two groups, every feature of both groups is *)
(* a column and the groups are disjoint; a combination with one of these   *)
(* defects is rejected with the error of a defect it has.                  *)
(***************************************************************************)
GroupDefects == {"arity", "unknown", "overlap"}

ErrorOf(d) ==
    IF d = "arity" THEN "InvalidCombinationError"
    ELSE IF d = "unknown" THEN "UnknownFeatureError"
    ELSE "OverlapError"

C11_CombinationValidation ==
    last.op \in {"get", "compute"} =>
        /\ last.err = "none" => last.bad \cap GroupDefects = {}
        /\ last.bad \cap GroupDefects # {}
              => /\ last.err \in {ErrorOf(d) : d \in last.bad \cap GroupDefects}
                 /\ last.log = <<>>

\* compute was called directly with overlapping groups, on an engine that
\* had fitted models before, and raised the overlap error
C11_Witness ==
    /\ last.op = "compute" /\ last.bad = {"overlap"}
    /\ last.err = "OverlapError" /\ DOMAIN models # {}

(***************************************************************************)
(* C12. Precomputed-only query and persistence: when a get has returned,   *)
(* get_all_pairwise(only_precomputed=True) and save complete without       *)
(* error, invoke no fit, leave both caches as they were and return a table *)
(* whose rows are the keys of the decomposition cache.                     *)
(***************************************************************************)
C12_PrecomputedOnly ==
    [][(/\ calls' = calls + 1
        /\ last.op = "get" /\ last.err = "none"
        /\ last'.op \in {"get_all_pairwise", "save"}
        /\ last'.only_precomputed)
       => /\ last'.err = "none"
          /\ last'.log = <<>>
          /\ models' = models /\ decomps' = decomps
          /\ ~last'.return_matrixs => DOMAIN last'.table = DOMAIN decomps]_vars

(***************************************************************************)
(* C13. Pairwise table labelling: the table get_all_pairwise() returns has *)
(* one row per ordered pair of distinct columns; the row (a, b) with a     *)
(* before b in canonical order is the decomposition of ([a], [b]) as       *)
(* compute returns it (var_g1 for a, var_g2 for b), and the row (b, a) is  *)
(* that row with var_g1 and var_g2 swapped.                                *)
(***************************************************************************)
PairKey(a, b) == DecompKey(sort_comb(<<<<a>>, <<b>>>>, FALSE), <<>>)

C13_TableLabelling ==
    (/\ last.op = "get_all_pairwise" /\ last.err = "none"
     /\ ~last.only_precomputed /\ ~last.return_matrixs)
    => /\ DOMAIN last.table = {<<a, b>> : a, b \in Range(columns)}
                                 \ {<<a, a>> : a \in Range(columns)}
       /\ \A a, b \in Range(columns) :
            a < b => /\ PairKey(a, b) \in DOMAIN decomps
                     /\ last.table[<<a, b>>] = decomps[PairKey(a, b)]
                     /\ last.table[<<b, a>>] = SwapG1G2(decomps[PairKey(a, b)])

(***************************************************************************)
(* C14. Excluded terms: for disjoint groups G1, G2, a conditioning set C   *)
(* disjoint from both and maximum order k, the terms excluded from the     *)
(* grouped model are exactly the subsets T of G1, G2 and C together with   *)
(* 2 <= |T| <= k that contain a feature of G1 and a feature of G2; no term *)
(* within one group and C is excluded, and a single-group model is fitted  *)
(* without any exclusion.                                                  *)
(***************************************************************************)
CrossTerms(g1, g2, C, k) ==
    {T \in SUBSET (Range(g1) \cup Range(g2) \cup Range(C)) :
        /\ Cardinality(T) \in 2..k
        /\ T \cap Range(g1) # {}
        /\ T \cap Range(g2) # {}}

\* a list of terms as a set of feature sets
TermSets(terms) == {Range(terms[i]) : i \in 1..Len(terms)}

\* the list names no feature set twice, and no feature twice in a term
NoRepeats(terms) ==
    /\ Cardinality(TermSets(terms)) = Len(terms)
    /\ \A i \in 1..Len(terms) : Cardinality(Range(terms[i])) = Len(terms[i])

C14_ExcludedTerms ==
    last.op = "get_model" =>
        LET g1 == last.comb[1]
            g2 == last.comb[2]
        IN  /\ last.grouped.hasExcl
            /\ TermSets(last.grouped.excl) = CrossTerms(g1, g2, last.C, last.order)
            /\ NoRepeats(last.grouped.excl)
            /\ \A T \in TermSets(last.grouped.excl) :
                    /\ ~(T \subseteq Range(g1) \cup Range(last.C))
                    /\ ~(T \subseteq Range(g2) \cup Range(last.C))
            /\ ~last.single.hasExcl /\ last.single.excl = <<>>

\* a group of two features, a conditioning feature and order 3: two pairs
\* and three triples are excluded
C14_Witness ==
    /\ last.op = "get_model" /\ last.order = 3
    /\ Len(last.comb[1]) = 2 /\ Len(last.comb[2]) = 1 /\ Len(last.C) = 1
    /\ Len(last.grouped.excl) = 5
    /\ \E i \in 1..5 : Len(last.grouped.excl[i]) = 3

(***************************************************************************)
(* C17. Component partition: the term lists compute extracts from the      *)
(* grouped model (terms of G1, terms of G2, pure-C terms) are pairwise     *)
(* disjoint and name no term twice; together they are the main effects of  *)
(* all features of G1, G2 and C plus the interactions of size 2..order     *)
(* within G1 and C or within G2 and C; the G1 list holds exactly those     *)
(* with a feature of G1, the G2 list those with a feature of G2.           *)
(***************************************************************************)
ModelTerms(g1, g2, C, k) ==
    {T \in SUBSET (Range(g1) \cup Range(g2) \cup Range(C)) :
        \/ Cardinality(T) = 1
        \/ /\ Cardinality(T) \in 2..k
           /\ \/ T \subseteq Range(g1) \cup Range(C)
              \/ T \subseteq Range(g2) \cup Range(C)}

C17_ComponentPartition ==
    last.op = "component_terms" =>
        LET g1 == last.comb[1]
            g2 == last.comb[2]
            all == ModelTerms(g1, g2, last.C, last.order)
            S1 == TermSets(last.terms_g1)
            S2 == TermSets(last.terms_g2)
            SC == TermSets(last.terms_C)
        IN  /\ NoRepeats(last.terms_g1) /\ NoRepeats(last.terms_g2)
            /\ NoRepeats(last.terms_C)
            /\ S1 \cap S2 = {} /\ S1 \cap SC = {} /\ S2 \cap SC = {}
            /\ S1 \cup S2 \cup SC = all
            /\ S1 = {T \in all : T \cap Range(g1) # {}}
            /\ S2 = {T \in all : T \cap Range(g2) # {}}

\* two conditioning features and order 3: the pure-C pair is in the C list
\* only, and the G1 list has a triple with both conditioning features
C17_Witness ==
    /\ last.op = "component_terms" /\ last.order = 3
    /\ Len(last.comb[1]) = 1 /\ Len(last.comb[2]) = 1 /\ Len(last.C) = 2
    /\ Range(last.C) \in TermSets(last.terms_C)
    /\ \E T \in TermSets(last.terms_g1) : Cardinality(T) = 3 /\ Range(last.C) \subseteq T

(***************************************************************************)
(* C15. Model memoization across queries: in a call other than new_split   *)
(* no stored predictor is replaced or removed, a fit is invoked only for a *)
(* key that is not stored, every stored key has been fitted once, and the  *)
(* predictors a decomposition is computed from are the stored ones: the    *)
(* ones stored before the call for the keys that were.                     *)
(***************************************************************************)
\* the groups as compute receives them
CallComb(c) == IF c.op = "get" THEN sort_comb(c.comb, FALSE) ELSE c.comb

\* the keys of b, model_full, model_order1, f1, f2
RetKeys(c) ==
    LET cmb == CallComb(c)
    IN  <<ModelKey(<<c.C>>, c.order, <<>>),
          ModelKey(<<Flatten(cmb)>>, c.order, c.C),
          ModelKey(cmb, c.order, c.C),
          ModelKey(<<cmb[1]>>, c.order, c.C),
          ModelKey(<<cmb[2]>>, c.order, c.C)>>

Computed(c) ==
    c.op \in {"get", "compute"} /\ c.err = "none" /\ ~c.hit /\ c.bad = {}

C15_ModelMemoization ==
    [][(calls' = calls + 1 /\ last'.op # "new_split")
       => /\ \A k \in DOMAIN models :
                /\ k \in DOMAIN models' /\ models'[k] = models[k]
                /\ nfit'[k] = nfit[k]
          /\ \A k \in DOMAIN models' : k \in DOMAIN nfit' /\ nfit'[k] = 1
          /\ \A i \in 1..Len(last'.log) :
                last'.log[i].kind = "model"
                    => /\ last'.log[i].key \notin DOMAIN models
                       /\ \A j \in 1..Len(last'.log) :
                            (j # i /\ last'.log[j].kind = "model")
                                => last'.log[j].key # last'.log[i].key
          /\ Computed(last')
                => \A i \in 1..5 :
                      \/ i = 1 /\ last'.C = <<>>
                      \/ /\ RetKeys(last')[i] \in DOMAIN models'
                         /\ last'.ret[i] = models'[RetKeys(last')[i]]
                         /\ RetKeys(last')[i] \in DOMAIN models
                               => last'.ret[i] = models[RetKeys(last')[i]]]_vars

\* the second query needs, as the model of one of its groups, the full model
\* of the first query: it fits three models and reuses that one
C15_Witness ==
    /\ calls = 2 /\ Computed(last) /\ last.op = "get" /\ last.C = <<>>
    /\ Len(last.log) = 3
    /\ \E i \in 4..5 :
          /\ RetKeys(last)[i] \in DOMAIN models
          /\ \A j \in 1..3 : last.log[j].key # RetKeys(last)[i]

(***************************************************************************)
(* C16. Consistent conditioning: every stored model whose key has a        *)
(* non-empty conditioning set C is stored together with the model of C     *)
(* alone (same order, combination [C], no conditioning set), which was     *)
(* fitted on the target itself, and was fitted on the residual of that     *)
(* model; the baseline of a decomposition given C is that stored model,    *)
(* and the models of the decomposition were fitted on its residual.        *)
(***************************************************************************)
C16_ConsistentConditioning ==
    /\ \A key \in DOMAIN models :
          IF key[3] # <<>>
          THEN LET ck == <<key[1], <<key[3]>>, <<>>>>
               IN  /\ ck \in DOMAIN models
                   /\ models[ck].base = -1
                   /\ models[key].base = models[ck].split
          ELSE models[key].base = -1
    /\ (Computed(last) /\ last.C # <<>>)
          => /\ RetKeys(last)[1] \in DOMAIN models
             /\ last.ret[1] = models[RetKeys(last)[1]]
             /\ \A i \in 2..5 : last.ret[i].base = last.ret[1].split

C16_Witness ==
    /\ Computed(last) /\ last.C # <<>> /\ calls = 2
    /\ \E key \in DOMAIN models : key[3] # <<>> /\ models[key].base = 0
    /\ \A i \in 1..Len(last.log) : last.log[i].key # RetKeys(last)[1]

(***************************************************************************)
(* C18. Repeatable get: a get that returned, followed without a new_split  *)
(* by a get of the same groups in the same order and the same conditioning *)
(* set, returns an equal result (stated where the evaluation target is not *)
(* constant).                                                              *)
(***************************************************************************)
C18_RepeatableGet ==
    [][(/\ GetStep /\ split.varY # 0
        /\ last.op = "get" /\ last.bad = {} /\ last.err = "none"
        /\ last'.bad = {} /\ last'.err = "none"
        /\ last'.comb = last.comb /\ last'.C = last.C)
       => last'.res = last.res]_vars

(***************************************************************************)
(* C19. Decomposition sums to the full model: in every result compute      *)
(* returns, var_g1 + var_g2 + additive_collab_explv + additive_collab_cov  *)
(* + interactive_collab is factor * var_total, and var_gC is 0 when C is   *)
(* empty, so that the sum of the six fields is factor * var_total too      *)
(* (stated where the factor is finite and not zero).                       *)
(***************************************************************************)
Sum5(res) ==
    FAdd(FAdd(FAdd(res.var_g1, res.var_g2),
              FAdd(res.additive_collab_explv, res.additive_collab_cov)),
         res.interactive_collab)

C19_DecompositionSum ==
    (/\ Computed(last)
     /\ IsFinite(last.raw.factor) /\ last.raw.factor.n # 0)
    => /\ Sum5(last.res) = FMul(last.raw.factor, last.raw.var_total)
       /\ last.C = <<>>
             => /\ last.res.var_gC = Num(0)
                /\ Sum6(last.res) = FMul(last.raw.factor, last.raw.var_total)

=============================================================================
